---- MODULE Spec2Model ----
(***************************************************************************)
(* Multithreaded TCP echo server (src/server.c).                           *)
(*                                                                         *)
(* main() sets up a listening socket and runs the accept loop; every       *)
(* accepted connection is handed to a detached thread running              *)
(* handle_client(), which echoes what it receives until the peer closes    *)
(* or an I/O call fails.  The clients and the kernel are the environment:  *)
(* they decide what arrives, how recv() and send() chunk it, and which     *)
(* calls fail.                                                             *)
(***************************************************************************)
EXTENDS Integers, Sequences, FiniteSets, TLC

----------------------------------------------------------------------------
(* Bounds of the model *)

\* connections the Listener accepts in one run
MaxConn == 2
\* bytes one client sends on its connection
MaxData == 3
\* values the peer can choose from for each byte it sends
NBytes == 1
\* handle_client's BUF_SZ (4096 in the source), scaled down so that a
\* client's data can exceed one buffer
BUF_SZ == 2
\* send calls on one chunk up to which a send may still return 0
MaxSendCalls == 2

----------------------------------------------------------------------------
(* Program constants *)

\* int port = 8080
DefaultPort == 8080

\* values of the port argument: none given (the default), ordinary ports, the
\* ends of the 16-bit range and values outside it
PortArgs == {DefaultPort, -1, 0, 1, 80, 65535, 65536, 65536 + DefaultPort}

\* the port the kernel picks for a bind to port 0
EphemeralPorts == {32768}

Conns == 1 .. MaxConn

\* payload values are tagged with the connection they are sent on and their
\* position in its stream, so that a byte that is lost, repeated, moved or
\* shows up on another connection is recognisable
Payload(c, i) == { c * 100 + i * 10 + k : k \in 1 .. NBytes }

\* remote endpoints as the peer knows them (host byte order)
PeerIPs == {<<10, 0, 0, 1>>}
PeerPorts(c) == {5000 + c}

\* errno values the environment can produce
EINTR == "EINTR"
RecvErrnos == {EINTR, "ECONNRESET"}
SendErrnos == {EINTR, "EPIPE"}
AcceptErrnos == {EINTR, "EMFILE"}

\* htons()/ntohs() on a little-endian host: swap the two bytes of a 16-bit value
htons(x) == ((x % 65536) % 256) * 256 + ((x % 65536) \div 256)
ntohsMissing(x) == x
ntohs(x) == ((x % 65536) % 256) * 256 + ((x % 65536) \div 256)

\* in_addr.s_addr of a dotted quad: its four octets in network order, read as
\* a 32-bit integer by a little-endian host
s_addr(q) == q[1] + 256 * q[2] + 65536 * q[3] + 16777216 * q[4]

\* inet_ntop(AF_INET, ...): the dotted quad of a 32-bit address, octet by octet
\* in memory order
inet_ntop(a) ==
    <<a % 256, (a \div 256) % 256, (a \div 65536) % 256, (a \div 16777216) % 256>>

\* sockaddr_in client_addr{} : zero-initialised
ZeroAddr == [sin_addr |-> 0, sin_port |-> 0]

\* the sockaddr_in accept() fills in for a peer ip:port
SockAddr(ip, p) == [sin_addr |-> s_addr(ip), sin_port |-> htons(p)]

\* std::vector<char> buf(BUF_SZ): BUF_SZ chars, value-initialised
ZeroBuf == [i \in 1 .. BUF_SZ |-> 0]

\* addr_str and client_port before handle_client has computed them
NoPeer == [ip |-> <<>>, port |-> 0]

Min(a, b) == IF a < b THEN a ELSE b

\* std::to_string(int): the decimal digits, after a "-" for a negative value
RECURSIVE Digits(_)
Digits(x) == IF x < 10 THEN <<x>> ELSE Append(Digits(x \div 10), x % 10)
to_string(x) == IF x < 0 THEN <<"-">> \o Digits(-x) ELSE Digits(x)

----------------------------------------------------------------------------
VARIABLES
    \* Listener (main)
    lpc,            \* position of main
    listen_fd,      \* "none" | "open" | "closed"
    listen_closes,  \* close(listen_fd) calls so far
    exit_code,      \* -1 while the process runs, else main's return value
    l_client_fd,    \* main's client_fd of the current loop iteration
    l_client_addr,  \* main's client_addr of the current loop iteration
    l_errno,        \* errno of the main thread
    nconn,          \* connections accepted so far
    port,           \* main's port
    bound_port,     \* the port the listening socket is bound to, 0 while unbound
    \* Connection handlers (handle_client), one per connection
    hpc,            \* position of the handler thread
    fd,             \* the connection's descriptor: "none" | "open" | "closed"
    closes,         \* close(client_fd) calls so far
    late_ops,       \* recv/send/close calls issued on the descriptor after its close
    h_addr,         \* handle_client's client_addr parameter
    h_peer,         \* addr_str and client_port
    n,              \* result of the last recv
    sent,           \* bytes of the current chunk already sent
    buf,            \* the handler's buffer: BUF_SZ chars
    h_errno,        \* errno of the handler thread
    send_calls,     \* send calls made so far by the write loop in progress, else 0
    \* Environment: the peers and the byte streams
    wire_in,        \* bytes in flight from the peer to the server
    client_sent,    \* everything the peer has sent so far
    peer_shut,      \* the peer has closed its write side
    rcvd,           \* everything recv has returned so far
    echoed,         \* everything send has written so far
    \* Output streams
    cout,           \* lines written by log()
    cerr,           \* lines written to std::cerr
    stream,         \* the pieces inserted into std::cout by the log calls that
                    \* are followed insertion by insertion (SpecLog)
    lg_pos          \* per handler: the insertions its log call has made

pvars == <<port, bound_port>>
lvars == <<lpc, listen_fd, listen_closes, exit_code, l_client_fd, l_client_addr,
           l_errno, nconn, pvars>>
hvars == <<hpc, fd, closes, late_ops, h_addr, h_peer, n, sent, buf, h_errno,
           send_calls>>
evars == <<wire_in, client_sent, peer_shut, rcvd, echoed>>
gvars == <<stream, lg_pos>>
ovars == <<cout, cerr, gvars>>
vars == <<lvars, hvars, evars, ovars>>

\* the process is alive until main returns
Running == exit_code = -1

\* static void log(const std::string &s): one line on std::cout
log(line) == cout' = Append(cout, line) /\ UNCHANGED gvars

\* std::cout << "[" << std::put_time(...) << "] " << s << "\n": the pieces
\* log inserts, one operator<< call each
LogPieces(line) == <<"[", "time", "] ", line, "\n">>

\* the buffer a handler invocation uses: std::vector<char> buf(BUF_SZ) is a
\* local of that invocation, not a buffer shared by the threads
BufOfShared(c) == 1
BufOf(c) == c

----------------------------------------------------------------------------
\* the state when main starts, but for the port
InitRest ==
    /\ lpc = "socket"
    /\ bound_port = 0
    /\ send_calls = [c \in Conns |-> 0]
    /\ listen_fd = "none"
    /\ listen_closes = 0
    /\ exit_code = -1
    /\ l_client_fd = 0
    /\ l_client_addr = ZeroAddr
    /\ l_errno = "0"
    /\ nconn = 0
    /\ hpc = [c \in Conns |-> "unborn"]
    /\ fd = [c \in Conns |-> "none"]
    /\ closes = [c \in Conns |-> 0]
    /\ late_ops = [c \in Conns |-> 0]
    /\ h_addr = [c \in Conns |-> ZeroAddr]
    /\ h_peer = [c \in Conns |-> NoPeer]
    /\ n = [c \in Conns |-> 0]
    /\ sent = [c \in Conns |-> 0]
    /\ buf = [c \in Conns |-> ZeroBuf]
    /\ h_errno = [c \in Conns |-> "0"]
    /\ wire_in = [c \in Conns |-> <<>>]
    /\ client_sent = [c \in Conns |-> <<>>]
    /\ peer_shut = [c \in Conns |-> FALSE]
    /\ rcvd = [c \in Conns |-> <<>>]
    /\ echoed = [c \in Conns |-> <<>>]
    /\ cout = <<>>
    /\ cerr = <<>>
    /\ stream = <<>>
    /\ lg_pos = [c \in Conns |-> 0]

\* int port = 8080; no port argument given
Init ==
    /\ port = DefaultPort
    /\ InitRest

\* if (argc >= 2) port = std::stoi(argv[1]);
InitPorts ==
    /\ port \in PortArgs
    /\ InitRest

----------------------------------------------------------------------------
(* Listener: main() *)

\* where main goes after reporting a failed setup step at pc: return 1 ends
\* the process, it does not fall through to the next setup step
AfterStartupFailFallThrough(pc) ==
    CASE pc = "socket" -> "setsockopt"
      [] pc = "setsockopt" -> "bind"
      [] pc = "bind" -> "listen"
      [] OTHER -> "log_listening"
AfterStartupFail(pc) == "exited"

\* a failed setup step: report on std::cerr, close the socket if there is one,
\* return 1
StartupFail(what, e) ==
    /\ cerr' = Append(cerr, <<what, e>>)
    /\ l_errno' = e
    /\ listen_fd' = IF listen_fd = "open" THEN "closed" ELSE listen_fd
    /\ listen_closes' = IF listen_fd = "open" THEN listen_closes + 1 ELSE listen_closes
    /\ exit_code' = IF AfterStartupFail(lpc) = "exited" THEN 1 ELSE exit_code
    /\ lpc' = AfterStartupFail(lpc)
    /\ UNCHANGED <<l_client_fd, l_client_addr, nconn, pvars, hvars, evars, cout,
                   gvars>>

\* a setup step that succeeded
StartupStep(next) ==
    /\ lpc' = next
    /\ UNCHANGED <<listen_closes, exit_code, l_client_fd, l_client_addr, l_errno,
                   nconn, port, hvars, evars, ovars>>

\* int listen_fd = socket(AF_INET, SOCK_STREAM, 0);
Socket ==
    /\ lpc = "socket"
    /\ \/ listen_fd' = "open" /\ UNCHANGED bound_port /\ StartupStep("setsockopt")
       \/ StartupFail("socket() failed", "EMFILE")

\* setsockopt(listen_fd, SOL_SOCKET, SO_REUSEADDR, ...)
SetSockOpt ==
    /\ lpc = "setsockopt"
    /\ \/ UNCHANGED <<listen_fd, bound_port>> /\ StartupStep("bind")
       \/ StartupFail("setsockopt() failed", "EINVAL")

\* the ports a bind to srv_addr can give the socket: the 16 bits of sin_port
\* read in network order, or a port of the kernel's choice when they are 0
BindPortsUnreduced(sin_port) == {port}
BindPorts(sin_port) ==
    IF ntohs(sin_port) = 0 THEN EphemeralPorts ELSE {ntohs(sin_port)}

\* srv_addr.sin_port = htons(port);
\* bind(listen_fd, (sockaddr*)&srv_addr, sizeof(srv_addr))
Bind ==
    /\ lpc = "bind"
    /\ \/ /\ \E b \in BindPorts(htons(port)) : bound_port' = b
          /\ UNCHANGED listen_fd
          /\ StartupStep("listen")
       \/ StartupFail("bind() failed", "EADDRINUSE")

\* listen(listen_fd, SOMAXCONN)
Listen ==
    /\ lpc = "listen"
    /\ \/ UNCHANGED <<listen_fd, bound_port>> /\ StartupStep("log_listening")
       \/ StartupFail("listen() failed", "EADDRINUSE")

\* log("Listening on port " + std::to_string(port));
LogListening ==
    /\ lpc = "log_listening"
    /\ log(<<"Listening on port", to_string(port)>>)
    /\ lpc' = "accept"
    /\ UNCHANGED <<listen_fd, listen_closes, exit_code, l_client_fd, l_client_addr,
                   l_errno, nconn, pvars, hvars, evars, cerr>>

\* accept() returned a new connection
AcceptOk ==
    /\ lpc = "accept"
    /\ nconn < MaxConn
    /\ \E ip \in PeerIPs, p \in PeerPorts(nconn + 1) :
          l_client_addr' = SockAddr(ip, p)
    /\ l_client_fd' = nconn + 1
    /\ nconn' = nconn + 1
    /\ fd' = [fd EXCEPT ![nconn + 1] = "open"]
    /\ lpc' = "spawn"
    /\ UNCHANGED <<listen_fd, listen_closes, exit_code, l_errno, pvars>>
    /\ UNCHANGED <<hpc, closes, late_ops, h_addr, h_peer, n, sent, buf, h_errno,
                   send_calls>>
    /\ UNCHANGED <<evars, ovars>>

\* what the accept loop does after accept() failed with errno e:
\* "accept" (continue) or "close_listen" (break)
AfterAcceptFailRetryAlways(e) == "accept"
AfterAcceptFailFatalAlways(e) == "close_listen"
AfterAcceptFail(e) == IF e = EINTR THEN "accept" ELSE "close_listen"

\* accept() failed
AcceptFail ==
    /\ lpc = "accept"
    /\ \E e \in AcceptErrnos :
          /\ l_errno' = e
          /\ lpc' = AfterAcceptFail(e)
          /\ cerr' = IF AfterAcceptFail(e) = "accept"
                        THEN cerr
                        ELSE Append(cerr, <<"accept() failed", e>>)
    /\ l_client_fd' = -1
    /\ l_client_addr' = ZeroAddr
    /\ UNCHANGED <<listen_fd, listen_closes, exit_code, nconn, pvars, hvars, evars,
                   cout, gvars>>

\* the sockaddr_in the new thread's handle_client receives: std::thread copies
\* its arguments at construction
ThreadArgAddr == l_client_addr

\* t.detach(): main goes back to accept() and never waits for the thread
\* ("join" would be main blocked in t.join())
AfterSpawnJoin == "join"
AfterSpawn == "accept"

\* std::thread t(handle_client, client_fd, client_addr); t.detach();
Spawn ==
    /\ lpc = "spawn"
    /\ hpc' = [hpc EXCEPT ![l_client_fd] = "entry"]
    /\ h_addr' = [h_addr EXCEPT ![l_client_fd] = ThreadArgAddr]
    /\ lpc' = AfterSpawn
    /\ UNCHANGED <<listen_fd, listen_closes, exit_code, l_client_fd, l_client_addr,
                   l_errno, nconn, pvars>>
    /\ UNCHANGED <<fd, closes, late_ops, h_peer, n, sent, buf, h_errno, send_calls>>
    /\ UNCHANGED <<evars, ovars>>

\* close(listen_fd); after the accept loop
CloseListen ==
    /\ lpc = "close_listen"
    /\ listen_fd' = "closed"
    /\ listen_closes' = listen_closes + 1
    /\ lpc' = "return"
    /\ UNCHANGED <<exit_code, l_client_fd, l_client_addr, l_errno, nconn, pvars,
                   hvars, evars, ovars>>

\* return 0; the process ends and takes the detached threads with it
Return ==
    /\ lpc = "return"
    /\ exit_code' = 0
    /\ lpc' = "exited"
    /\ UNCHANGED <<listen_fd, listen_closes, l_client_fd, l_client_addr, l_errno,
                   nconn, pvars, hvars, evars, ovars>>

----------------------------------------------------------------------------
(* Connection Handler: handle_client() *)

\* the descriptor handler c operates on: its own client_fd parameter, a copy of
\* the value accept() returned for connection c
ClientFdOfMain(c) == IF l_client_fd \in Conns THEN l_client_fd ELSE c
ClientFd(c) == c

\* a recv, send or close call on descriptor k: counted when the descriptor has
\* already been closed
Touch(k) ==
    late_ops' = [late_ops EXCEPT ![k] = IF fd[k] = "closed" THEN Min(@ + 1, 2) ELSE @]

\* handle_client's client_addr: a parameter passed by value, the copy made
\* when the thread was constructed, not main's variable
ArgAddrOfMain(c) == l_client_addr
ArgAddr(c) == h_addr[c]

\* inet_ntop(...), ntohs(client_addr.sin_port), log("Connected: ...")
Entry(c) ==
    /\ Running
    /\ hpc[c] = "entry"
    /\ LET peer == [ip |-> inet_ntop(ArgAddr(c).sin_addr),
                    port |-> ntohs(ArgAddr(c).sin_port)]
       IN /\ h_peer' = [h_peer EXCEPT ![c] = peer]
          /\ log(<<"Connected", peer>>)
    /\ buf' = [buf EXCEPT ![BufOf(c)] = ZeroBuf]
    /\ hpc' = [hpc EXCEPT ![c] = "recv"]
    /\ UNCHANGED <<fd, closes, late_ops, h_addr, n, sent, h_errno, send_calls>>
    /\ UNCHANGED <<lvars, evars, cerr>>

\* the length passed to recv: (int)BUF_SZ, the size of buf
RecvLenOverBuf == BUF_SZ + 1
RecvLen == BUF_SZ

\* recv(client_fd, buf.data(), BUF_SZ, 0) returned m > 0 bytes: the next m bytes
\* of the stream, at most BUF_SZ of them; then ssize_t sent = 0
RecvData(c) ==
    /\ Running
    /\ hpc[c] = "recv"
    /\ LET k == ClientFd(c) IN
       /\ wire_in[k] # <<>>
       /\ \E m \in 1 .. Min(Len(wire_in[k]), RecvLen) :
             /\ n' = [n EXCEPT ![c] = m]
             /\ buf' = [buf EXCEPT ![BufOf(c)] =
                          [i \in 1 .. BUF_SZ |-> IF i <= m THEN wire_in[k][i] ELSE @[i]]]
             /\ rcvd' = [rcvd EXCEPT ![k] = @ \o SubSeq(wire_in[k], 1, m)]
             /\ wire_in' = [wire_in EXCEPT ![k] = SubSeq(@, m + 1, Len(@))]
       /\ Touch(k)
    /\ sent' = [sent EXCEPT ![c] = 0]
    /\ send_calls' = [send_calls EXCEPT ![c] = 0]
    /\ hpc' = [hpc EXCEPT ![c] = "send"]
    /\ UNCHANGED <<fd, closes, h_addr, h_peer, h_errno>>
    /\ UNCHANGED <<lvars, client_sent, peer_shut, echoed, ovars>>

\* where the handler goes on break: the close(client_fd) after the loop
AfterBreakReturn == "done"
AfterBreak == "close"

\* recv returned 0 (the peer closed its write side and everything it sent has
\* been read): log("Client disconnected: ..."); break
RecvEOF(c) ==
    /\ Running
    /\ hpc[c] = "recv"
    /\ LET k == ClientFd(c) IN
       /\ wire_in[k] = <<>>
       /\ peer_shut[k]
       /\ Touch(k)
    /\ n' = [n EXCEPT ![c] = 0]
    /\ log(<<"Client disconnected", h_peer[c]>>)
    /\ hpc' = [hpc EXCEPT ![c] = AfterBreak]
    /\ UNCHANGED <<fd, closes, h_addr, h_peer, sent, buf, h_errno, send_calls>>
    /\ UNCHANGED <<lvars, evars, cerr>>

\* if (errno == EINTR) continue;
RecvRetryNever(e) == FALSE
RecvRetryAlways(e) == TRUE
RecvRetry(e) == e = EINTR

\* recv returned -1 with errno e: retry on EINTR, else log and break
RecvFail(c) ==
    /\ Running
    /\ hpc[c] = "recv"
    /\ \E e \in RecvErrnos :
          /\ h_errno' = [h_errno EXCEPT ![c] = e]
          /\ IF RecvRetry(e)
                THEN /\ hpc' = [hpc EXCEPT ![c] = "recv"]
                     /\ UNCHANGED <<cout, gvars>>
                ELSE /\ hpc' = [hpc EXCEPT ![c] = AfterBreak]
                     /\ log(<<"Error in recv()", e>>)
    /\ n' = [n EXCEPT ![c] = -1]
    /\ Touch(ClientFd(c))
    /\ UNCHANGED <<fd, closes, h_addr, h_peer, sent, buf, send_calls>>
    /\ UNCHANGED <<lvars, evars, cerr>>

\* the bytes send(client_fd, buf.data() + sent, n - sent, 0) transmits when it
\* returns s: s bytes of b starting at offset off
SendChunkFromStart(b, off, s) == SubSeq(b, 1, s)
SendChunk(b, off, s) == SubSeq(b, off + 1, off + s)

\* while (sent < n): where the handler goes after sent += s
AfterSendOneCall(sn, nn) == "recv"
AfterSend(sn, nn) == IF sn < nn THEN "send" ELSE "recv"

\* send returned s, 1 <= s <= n - sent; sent += s
SendSome(c) ==
    /\ Running
    /\ hpc[c] = "send"
    /\ LET k == ClientFd(c) IN
       /\ \E s \in 1 .. (n[c] - sent[c]) :
             /\ echoed' = [echoed EXCEPT ![k] = @ \o SendChunk(buf[BufOf(c)], sent[c], s)]
             /\ sent' = [sent EXCEPT ![c] = @ + s]
             /\ hpc' = [hpc EXCEPT ![c] = AfterSend(sent[c] + s, n[c])]
       /\ Touch(k)
    /\ send_calls' = [send_calls EXCEPT ![c] = IF hpc'[c] = "send" THEN @ + 1 ELSE 0]
    /\ UNCHANGED <<fd, closes, h_addr, h_peer, n, buf, h_errno>>
    /\ UNCHANGED <<lvars, wire_in, client_sent, peer_shut, rcvd, ovars>>

\* send returned 0: nothing was transmitted and nothing failed; sent += 0 and
\* the loop condition sent < n still holds
SendZero(c) ==
    /\ Running
    /\ hpc[c] = "send"
    /\ send_calls[c] < MaxSendCalls
    /\ sent' = [sent EXCEPT ![c] = @ + 0]
    /\ hpc' = [hpc EXCEPT ![c] = AfterSend(sent[c] + 0, n[c])]
    /\ send_calls' = [send_calls EXCEPT ![c] = IF hpc'[c] = "send" THEN @ + 1 ELSE 0]
    /\ Touch(ClientFd(c))
    /\ UNCHANGED <<fd, closes, h_addr, h_peer, n, buf, h_errno>>
    /\ UNCHANGED <<lvars, evars, ovars>>

\* where the handler goes after the close in the send-error branch:
\* "done" (return), neither "close" (the close after the loop) nor the loop
AfterSendErrorBreak == "close"
AfterSendErrorContinue == "recv"
AfterSendError == "done"

\* send returned -1: log("Error in send(): ..."); close(client_fd); return
SendFail(c) ==
    /\ Running
    /\ hpc[c] = "send"
    /\ \E e \in SendErrnos :
          /\ h_errno' = [h_errno EXCEPT ![c] = e]
          /\ log(<<"Error in send()", e>>)
    /\ LET k == ClientFd(c) IN
       /\ fd' = [fd EXCEPT ![k] = "closed"]
       /\ closes' = [closes EXCEPT ![k] = Min(@ + 1, 2)]
       /\ Touch(k)
    /\ hpc' = [hpc EXCEPT ![c] = AfterSendError]
    /\ send_calls' = [send_calls EXCEPT ![c] = IF hpc'[c] = "send" THEN @ + 1 ELSE 0]
    /\ UNCHANGED <<h_addr, h_peer, n, sent, buf>>
    /\ UNCHANGED <<lvars, evars, cerr>>

\* close(client_fd); after the loop, then handle_client returns
Close(c) ==
    /\ Running
    /\ hpc[c] = "close"
    /\ LET k == ClientFd(c) IN
       /\ fd' = [fd EXCEPT ![k] = "closed"]
       /\ closes' = [closes EXCEPT ![k] = Min(@ + 1, 2)]
       /\ Touch(k)
    /\ hpc' = [hpc EXCEPT ![c] = "done"]
    /\ UNCHANGED <<h_addr, h_peer, n, sent, buf, h_errno, send_calls>>
    /\ UNCHANGED <<lvars, evars, ovars>>

----------------------------------------------------------------------------
(* Environment: the peers *)

\* the peer of connection c sends one more byte
ClientSend(c) ==
    /\ Running
    /\ fd[c] = "open"
    /\ ~peer_shut[c]
    /\ Len(client_sent[c]) < MaxData
    /\ \E b \in Payload(c, Len(client_sent[c]) + 1) :
          /\ wire_in' = [wire_in EXCEPT ![c] = Append(@, b)]
          /\ client_sent' = [client_sent EXCEPT ![c] = Append(@, b)]
    /\ UNCHANGED <<lvars, hvars, peer_shut, rcvd, echoed, ovars>>

\* the peer of connection c closes its write side
ClientShutdown(c) ==
    /\ Running
    /\ fd[c] = "open"
    /\ ~peer_shut[c]
    /\ peer_shut' = [peer_shut EXCEPT ![c] = TRUE]
    /\ UNCHANGED <<lvars, hvars, wire_in, client_sent, rcvd, echoed, ovars>>

----------------------------------------------------------------------------
ListenerStep ==
    \/ Socket
    \/ SetSockOpt
    \/ Bind
    \/ Listen
    \/ LogListening
    \/ AcceptOk
    \/ AcceptFail
    \/ Spawn
    \/ CloseListen
    \/ Return

HandlerStep(c) ==
    \/ Entry(c)
    \/ RecvData(c)
    \/ RecvEOF(c)
    \/ RecvFail(c)
    \/ SendSome(c)
    \/ SendZero(c)
    \/ SendFail(c)
    \/ Close(c)

ClientStep(c) ==
    \/ ClientSend(c)
    \/ ClientShutdown(c)

Next ==
    \/ ListenerStep
    \/ \E c \in Conns : HandlerStep(c)
    \/ \E c \in Conns : ClientStep(c)

Spec == Init /\ [][Next]_vars

\* one operator<< call of the handler's log("Connected: ...") call: it inserts
\* the next piece of the line into std::cout; nothing is locked around the
\* five insertions of one log call
LogPiece(c) ==
    /\ Running
    /\ hpc[c] = "entry"
    /\ LET peer == [ip |-> inet_ntop(ArgAddr(c).sin_addr),
                    port |-> ntohs(ArgAddr(c).sin_port)]
           pieces == LogPieces(<<"Connected", peer>>)
       IN /\ lg_pos[c] < Len(pieces)
          /\ stream' = Append(stream, [by |-> c, piece |-> pieces[lg_pos[c] + 1]])
    /\ lg_pos' = [lg_pos EXCEPT ![c] = @ + 1]
    /\ UNCHANGED <<lvars, hvars, evars, cout, cerr>>

\* the log call has made its last insertion: the handler goes on to its loop
EntryLogged(c) ==
    /\ lg_pos[c] = Len(LogPieces(<<>>))
    /\ Entry(c)

\* the program with the handlers' log("Connected: ...") calls followed
\* insertion by insertion, up to the handlers' first recv
NextLog ==
    \/ ListenerStep
    \/ \E c \in Conns : LogPiece(c) \/ EntryLogged(c)

SpecLog == Init /\ [][NextLog]_vars

\* main alone, started with each of the port arguments, no handler scheduled
SpecPorts == InitPorts /\ [][ListenerStep]_vars

----------------------------------------------------------------------------
(* Properties *)

IsPrefix(a, b) == Len(a) <= Len(b) /\ a = SubSeq(b, 1, Len(a))

Range(q) == { q[i] : i \in 1 .. Len(q) }

\* the part of the current chunk that has not been sent yet
Unsent(c) == SubSeq(buf[BufOf(c)], sent[c] + 1, n[c])

\* the handler of c has left its loop because recv returned 0
ClosedByPeer(c) == hpc[c] \in {"close", "done"} /\ n[c] = 0

\* the handler of c has left its loop because recv failed
ClosedOnRecvError(c) == hpc[c] \in {"close", "done"} /\ n[c] < 0

\* the handler of c has returned from the send-error branch
ClosedOnSendError(c) == hpc[c] = "done" /\ n[c] > 0

\* C1 - Echo fidelity: on every connection the bytes written back are always
\* a prefix of the bytes the client sent, in the same order, and once the
\* handler has seen the client's close (recv returned 0) they are exactly the
\* bytes the client sent, however recv and send chunked them.
C1_EchoFidelity ==
    \A c \in Conns :
       /\ IsPrefix(echoed[c], client_sent[c])
       /\ ClosedByPeer(c) => echoed[c] = client_sent[c]

\* a client's data took more than one recv and was echoed in full
C1_Witness ==
    \E c \in Conns :
       /\ ClosedByPeer(c)
       /\ Len(client_sent[c]) > BUF_SZ
       /\ echoed[c] = client_sent[c]

\* C2 - Partial-write completion: while the handler is in its write loop the
\* bytes received so far are exactly the bytes echoed so far followed by the
\* unsent suffix of the chunk (offset sent, length n - sent), which is not
\* empty; and whenever the handler is about to call recv, everything it has
\* received has been sent.
C2_PartialWriteCompletion ==
    \A c \in Conns :
       /\ hpc[c] = "send" =>
             /\ 0 <= sent[c] /\ sent[c] < n[c]
             /\ n[c] <= BUF_SZ
             /\ rcvd[c] = echoed[c] \o Unsent(c)
       /\ hpc[c] = "recv" => echoed[c] = rcvd[c]

\* a send has transmitted a part of the chunk only
C2_Witness ==
    \E c \in Conns : hpc[c] = "send" /\ 0 < sent[c] /\ sent[c] < n[c]

\* C3 - The connection is closed exactly once on every exit path: never
\* twice, no call on the descriptor after its close, a handler that has
\* returned has closed it, a closed descriptor means the handler has returned,
\* and a handler that has returned takes no further step.
C3_ClosedOnceInv ==
    \A c \in Conns :
       /\ closes[c] <= 1
       /\ late_ops[c] = 0
       /\ hpc[c] = "done" => closes[c] = 1 /\ fd[c] = "closed"
       /\ fd[c] = "closed" => hpc[c] = "done"
       /\ closes[c] = 1 <=> fd[c] = "closed"

C3_ClosedOnce ==
    /\ []C3_ClosedOnceInv
    /\ [][\A c \in Conns :
            hpc[c] = "done" =>
               /\ hpc'[c] = "done"
               /\ fd'[c] = "closed"
               /\ closes'[c] = closes[c]
               /\ echoed'[c] = echoed[c]
               /\ rcvd'[c] = rcvd[c]]_vars

\* all three exit paths have been taken
C3_Witness ==
    \E a, b \in Conns :
       /\ a # b
       /\ hpc[a] = "done" /\ hpc[b] = "done"
       /\ closes[a] = 1 /\ closes[b] = 1
       /\ ClosedOnSendError(a)
       /\ ClosedByPeer(b) \/ ClosedOnRecvError(b)

----------------------------------------------------------------------------
\* what belongs to connection d and its handler
ConnState(d) ==
    <<hpc[d], fd[d], closes[d], late_ops[d], h_addr[d], h_peer[d], n[d], sent[d],
      buf[BufOf(d)], h_errno[d], send_calls[d], wire_in[d], client_sent[d], peer_shut[d],
      rcvd[d], echoed[d]>>

\* the handler of c takes a step of an error path: recv fails with an error it
\* does not retry, send fails, or the close that follows a recv error
ErrorPathStep(c) ==
    \/ hpc[c] = "recv" /\ hpc'[c] # "recv" /\ n'[c] < 0
    \/ hpc[c] = "send" /\ hpc'[c] # "send" /\ sent'[c] = sent[c]
    \/ hpc[c] = "close" /\ hpc'[c] # "close" /\ n[c] < 0

PayloadOf(c) == UNION { Payload(c, i) : i \in 1 .. MaxData }

\* C5 - Independence: under every interleaving, what is written to a
\* connection is drawn from what was received on that same connection, which is
\* what its own peer sent, and the step that closes one connection leaves the
\* streams and the handler of every other connection as they are.
C5_Independence ==
    /\ [](\A c \in Conns :
            /\ Range(echoed[c]) \subseteq Range(rcvd[c])
            /\ Range(rcvd[c]) \subseteq PayloadOf(c)
            /\ IsPrefix(rcvd[c], client_sent[c])
            /\ hpc[c] = "send" => Range(Unsent(c)) \subseteq PayloadOf(c))
    /\ [][\A c \in Conns :
            fd[c] = "open" /\ fd'[c] = "closed" =>
               \A d \in Conns \ {c} : UNCHANGED ConnState(d)]_vars

\* one connection is closed while another, which has echoed a part of its
\* data, is in the middle of a chunk
C5_Witness ==
    \E c, d \in Conns :
       /\ c # d
       /\ fd[c] = "closed" /\ echoed[c] # <<>>
       /\ fd[d] = "open" /\ echoed[d] # <<>>
       /\ hpc[d] = "send" /\ sent[d] > 0

\* C6 - Non-blocking dispatch: the Listener's step after a successful accept
\* starts the handler of the accepted connection and puts the Listener back at
\* accept; that step is possible whatever the handlers are doing, and so is
\* the next accept.
C6_NonBlockingDispatch ==
    /\ [][lpc = "spawn" /\ lpc' # "spawn" =>
             /\ lpc' = "accept"
             /\ hpc[l_client_fd] = "unborn"
             /\ hpc'[l_client_fd] = "entry"
             /\ \A d \in Conns \ {l_client_fd} : UNCHANGED ConnState(d)]_vars
    /\ [](lpc = "spawn" => ENABLED Spawn)
    /\ [](lpc = "accept" /\ nconn < MaxConn => ENABLED AcceptOk)

\* the Listener is back at accept after dispatching a further connection whose
\* handler has not taken a step, while an earlier handler is blocked in recv
C6_Witness ==
    \E c, d \in Conns :
       /\ c # d
       /\ hpc[c] = "recv" /\ wire_in[c] = <<>> /\ ~peer_shut[c] /\ fd[c] = "open"
       /\ hpc[d] = "entry" /\ l_client_fd = d
       /\ lpc = "accept"

\* the remote endpoints connection c can come from
PeersOf(c) == { [ip |-> i, port |-> p] : i \in PeerIPs, p \in PeerPorts(c) }

\* C7 - Orderly close: the step in which recv returns 0 appends the line
\* "Client disconnected: <ip>:<port>" of the connection's peer to the log and
\* nothing to the error stream, with every byte received already echoed; the
\* handler's only further step is the close, which logs nothing; nothing is
\* sent on the connection from then on.
C7_OrderlyClose ==
    [][\A c \in Conns :
         /\ hpc[c] = "recv" /\ hpc'[c] # "recv" /\ n'[c] = 0 =>
               /\ \E p \in PeersOf(c) : cout' = Append(cout, <<"Client disconnected", p>>)
               /\ cerr' = cerr
               /\ echoed[c] = rcvd[c] /\ rcvd[c] = client_sent[c]
               /\ hpc'[c] = "close"
               /\ fd'[c] = "open"
         /\ ClosedByPeer(c) /\ hpc'[c] # hpc[c] =>
               /\ hpc[c] = "close" /\ hpc'[c] = "done"
               /\ fd'[c] = "closed" /\ closes'[c] = 1
               /\ UNCHANGED ovars
         /\ ClosedByPeer(c) => ClosedByPeer(c)' /\ echoed'[c] = echoed[c]]_vars

\* a connection that echoed data was closed after its peer's close, the
\* disconnect line being the last line of the log
C7_Witness ==
    \E c \in Conns :
       /\ ClosedByPeer(c) /\ hpc[c] = "done" /\ fd[c] = "closed"
       /\ echoed[c] # <<>>
       /\ cout # <<>> /\ cout[Len(cout)] = <<"Client disconnected", h_peer[c]>>

\* C8 - Write error: the step in which send fails, whatever errno is (EINTR
\* included), logs "Error in send(): ...", closes the connection and ends the
\* handler; the unsent rest of the chunk, which is not empty, is never sent and
\* nothing more is received.
C8_WriteError ==
    /\ [][\A c \in Conns :
            /\ hpc[c] = "send" /\ hpc'[c] # "send" /\ sent'[c] = sent[c] =>
                  /\ h_errno'[c] \in SendErrnos
                  /\ cout' = Append(cout, <<"Error in send()", h_errno'[c]>>)
                  /\ hpc'[c] = "done"
                  /\ fd'[c] = "closed" /\ closes'[c] = 1
                  /\ echoed'[c] = echoed[c] /\ rcvd'[c] = rcvd[c]
            /\ ClosedOnSendError(c) =>
                  /\ ClosedOnSendError(c)'
                  /\ echoed'[c] = echoed[c] /\ rcvd'[c] = rcvd[c]
                  /\ wire_in'[c] = wire_in[c]]_vars
    /\ [](\A c \in Conns :
            ClosedOnSendError(c) =>
               /\ Unsent(c) # <<>>
               /\ rcvd[c] = echoed[c] \o Unsent(c)
               /\ late_ops[c] = 0)

\* a send interrupted by a signal, after a part of the chunk had been sent,
\* ended the handler
C8_Witness ==
    \E c \in Conns :
       /\ ClosedOnSendError(c) /\ h_errno[c] = EINTR
       /\ 0 < sent[c] /\ sent[c] < n[c]
       /\ fd[c] = "closed"

\* the handler of c comes out of a failed recv with errno e
RecvFailStep(c, e) ==
    /\ hpc[c] = "recv"
    /\ n'[c] = -1 /\ h_errno'[c] = e
    /\ n[c] # -1 \/ h_errno[c] # e \/ hpc'[c] # "recv"

\* C9 - Receive error: a recv that fails with EINTR leaves the handler at recv
\* and changes neither the log, the error stream, the connection nor what was
\* sent; a recv that fails with any other errno logs "Error in recv(): ..."
\* and leaves the loop, and nothing is sent afterwards.
C9_ReceiveError ==
    [][\A c \in Conns :
         /\ RecvFailStep(c, EINTR) =>
               /\ hpc'[c] = "recv"
               /\ UNCHANGED <<ovars, evars, fd, closes, late_ops, sent, buf>>
         /\ \A e \in RecvErrnos \ {EINTR} :
               RecvFailStep(c, e) =>
                  /\ cout' = Append(cout, <<"Error in recv()", e>>)
                  /\ hpc'[c] = "close"
                  /\ UNCHANGED <<evars, cerr>>
         /\ ClosedOnRecvError(c) =>
               /\ ClosedOnRecvError(c)'
               /\ echoed'[c] = echoed[c]
               /\ h_errno'[c] = h_errno[c] /\ h_errno[c] # EINTR]_vars

\* one handler is back at recv after an EINTR in the middle of its stream,
\* another has left its loop on a recv error
C9_Witness ==
    \E c, d \in Conns :
       /\ c # d
       /\ hpc[c] = "recv" /\ n[c] = -1 /\ h_errno[c] = EINTR
       /\ fd[c] = "open" /\ echoed[c] # <<>>
       /\ ClosedOnRecvError(d) /\ h_errno[d] = "ECONNRESET"

\* C10 - Accept interrupted by signal: an accept that fails with EINTR leaves
\* the Listener at accept and changes nothing else: no handler is spawned, no
\* line is written to the log or the error stream, the listening socket stays
\* open, the connections and their handlers are as before.
C10_AcceptEINTR ==
    [][/\ lpc = "accept"
       /\ l_client_fd' = -1 /\ l_errno' = EINTR
       /\ l_client_fd # -1 \/ l_errno # EINTR \/ lpc' # "accept"
       => /\ lpc' = "accept"
          /\ listen_fd' = "open"
          /\ UNCHANGED <<listen_fd, listen_closes, exit_code, nconn>>
          /\ UNCHANGED <<hvars, evars, ovars>>]_vars

\* an accept was interrupted while a handler was running, and a later accept
\* has returned a further connection
C10_Witness ==
    /\ l_errno = EINTR
    /\ lpc = "spawn" /\ l_client_fd = 2
    /\ hpc[1] \in {"recv", "send"}
    /\ listen_fd = "open"

----------------------------------------------------------------------------
\* main has left the accept loop
LeftAcceptLoop == lpc \in {"close_listen", "return", "exited"}

\* C11 - Fatal accept error: an accept that fails with an errno other than
\* EINTR writes "accept() failed: ..." to the error stream and takes main out
\* of the accept loop; from then on no connection is accepted and no handler
\* is started, the listening socket is closed by one close call, and main
\* returns 0.
C11_FatalAccept ==
    /\ [][/\ ( /\ lpc = "accept"
               /\ l_client_fd' = -1 /\ l_errno' \in AcceptErrnos \ {EINTR}
               /\ l_errno' # l_errno \/ lpc' # lpc )
             => /\ cerr' = Append(cerr, <<"accept() failed", l_errno'>>)
                /\ lpc' = "close_listen"
                /\ listen_fd' = "open"
                /\ UNCHANGED <<cout, nconn, exit_code, listen_closes, hvars, evars>>
          /\ LeftAcceptLoop =>
                /\ LeftAcceptLoop'
                /\ nconn' = nconn
                /\ \A c \in Conns : hpc[c] = "unborn" => hpc'[c] = "unborn"
          /\ lpc = "close_listen" /\ lpc' # lpc =>
                /\ lpc' = "return"
                /\ listen_fd = "open" /\ listen_fd' = "closed"
                /\ listen_closes' = 1
                /\ exit_code' = -1
          /\ lpc = "return" /\ lpc' # lpc =>
                /\ lpc' = "exited"
                /\ exit_code' = 0
                /\ listen_fd' = "closed" /\ listen_closes' = 1]_vars
    /\ [](/\ listen_closes <= 1
          /\ exit_code = 0 =>
                /\ listen_fd = "closed" /\ listen_closes = 1
                /\ cerr # <<>>
                /\ cerr[Len(cerr)][1] = "accept() failed"
                /\ cerr[Len(cerr)][2] # EINTR)

\* the process has returned 0 after a fatal accept error that followed an
\* accepted connection
C11_Witness ==
    /\ exit_code = 0
    /\ listen_fd = "closed" /\ listen_closes = 1
    /\ nconn >= 1
    /\ cerr = << <<"accept() failed", "EMFILE">> >>

StartupPcs == {"socket", "setsockopt", "bind", "listen", "log_listening"}

StartupFailures ==
    {"socket() failed", "setsockopt() failed", "bind() failed", "listen() failed"}

\* the "Listening on port N" lines of the log
ListeningLines == { i \in 1 .. Len(cout) : cout[i][1] = "Listening on port" }

\* C12 - Startup failure: a process that has returned 1 has reported one
\* failed setup step and has never called accept, started a handler or written
\* a log line; the "Listening on port N" line is the first line of the log,
\* appears once, and only when no setup step has failed.
C12_StartupFailure ==
    /\ exit_code = 1 =>
          /\ lpc = "exited"
          /\ Len(cerr) = 1 /\ cerr[1][1] \in StartupFailures
          /\ cout = <<>>
          /\ nconn = 0 /\ l_client_fd = 0
          /\ \A c \in Conns : hpc[c] = "unborn" /\ fd[c] = "none"
          /\ listen_fd # "open"
    /\ lpc \in StartupPcs =>
          /\ cout = <<>> /\ cerr = <<>>
          /\ nconn = 0 /\ l_client_fd = 0
          /\ \A c \in Conns : hpc[c] = "unborn"
    /\ lpc \notin StartupPcs /\ exit_code # 1 => ListeningLines = {1}
    /\ ListeningLines \subseteq {1}
    /\ ListeningLines # {} =>
          /\ exit_code # 1
          /\ lpc \notin StartupPcs
          /\ \A i \in 1 .. Len(cerr) : cerr[i][1] \notin StartupFailures
    /\ nconn > 0 => ListeningLines = {1}

\* the last of the four setup steps has failed
C12_Witness ==
    /\ exit_code = 1
    /\ cerr # <<>> /\ cerr[1][1] = "listen() failed"
    /\ listen_fd = "closed" /\ listen_closes = 1
    /\ cout = <<>>

\* C13 - Connection ownership: a connection is dispatched once, to the handler
\* started by the spawn that follows its accept; recv, send and close on it
\* happen only in steps of that handler; main's steps leave a dispatched
\* connection alone; a closed connection is never operated on or dispatched
\* again.
C13_Ownership ==
    /\ [][\A c \in Conns :
            /\ hpc[c] = "unborn" /\ hpc'[c] # "unborn" =>
                  /\ lpc = "spawn" /\ l_client_fd = c
                  /\ hpc'[c] = "entry"
                  /\ fd[c] = "open"
            /\ hpc[c] # "unborn" =>
                  /\ hpc'[c] # "unborn"
                  /\ hpc'[c] = "entry" => hpc[c] = "entry"
            /\ ( \/ fd[c] = "open" /\ fd'[c] # "open"
                 \/ closes'[c] # closes[c]
                 \/ late_ops'[c] # late_ops[c]
                 \/ rcvd'[c] # rcvd[c]
                 \/ echoed'[c] # echoed[c] )
               => /\ hpc[c] \in {"recv", "send", "close"}
                  /\ hpc'[c] # hpc[c] \/ sent'[c] # sent[c]
                  /\ UNCHANGED lvars
                  /\ \A d \in Conns \ {c} :
                        hpc'[d] = hpc[d] /\ n'[d] = n[d] /\ sent'[d] = sent[d]
            /\ hpc[c] # "unborn" /\ lvars' # lvars => UNCHANGED ConnState(c)
            /\ fd[c] = "closed" =>
                  UNCHANGED <<fd[c], closes[c], rcvd[c], echoed[c], hpc[c]>>]_vars
    /\ [](\A c \in Conns :
            /\ late_ops[c] = 0
            /\ hpc[c] # "unborn" => c <= nconn /\ fd[c] # "none"
            /\ fd[c] # "none" <=> c <= nconn)

\* one connection has been closed by its handler while the handler of another
\* is echoing and main is back at accept
C13_Witness ==
    \E c, d \in Conns :
       /\ c # d
       /\ hpc[c] = "done" /\ fd[c] = "closed" /\ echoed[c] # <<>>
       /\ hpc[d] = "send" /\ fd[d] = "open" /\ rcvd[d] # <<>>
       /\ lpc = "accept"

\* the handler of c has been started and has not closed its connection
Live(c) == hpc[c] \in {"entry", "recv", "send", "close"}

\* C14 - No external cancellation: a handler that has been started and has not
\* yet closed its connection is never ended from outside, so the process it
\* runs in is still running.
C14_NoExternalCancellation ==
    \A c \in Conns : Live(c) => Running

\* the positions of the log lines with message m about connection c
LinesOf(m, c) == { i \in 1 .. Len(cout) : cout[i][1] = m /\ cout[i][2] \in PeersOf(c) }

\* C16 - Connect logging: a connection has no "Connected" line until its
\* handler has run its entry and exactly one from then on, written before the
\* handler received anything; the address in it and in the "Client
\* disconnected" line is the one the accept of this connection returned,
\* whatever main's client_addr holds by then; a "Client disconnected" line is
\* written at most once, for a connection whose peer has closed; and every
\* such line is about an accepted connection.
C16_ConnectLogging ==
    /\ \A c \in Conns :
          /\ Cardinality(LinesOf("Connected", c)) =
                IF hpc[c] \in {"unborn", "entry"} THEN 0 ELSE 1
          /\ hpc[c] \in {"unborn", "entry"} => rcvd[c] = <<>> /\ late_ops[c] = 0
          /\ hpc[c] \notin {"unborn", "entry"} =>
                /\ h_peer[c] \in PeersOf(c)
                /\ h_peer[c] = [ip |-> inet_ntop(h_addr[c].sin_addr),
                                port |-> ntohs(h_addr[c].sin_port)]
          /\ Cardinality(LinesOf("Client disconnected", c)) =
                IF ClosedByPeer(c) THEN 1 ELSE 0
          /\ \A i \in LinesOf("Client disconnected", c) :
                \E j \in LinesOf("Connected", c) : j < i /\ cout[j][2] = cout[i][2]
    /\ \A i \in 1 .. Len(cout) :
          cout[i][1] \in {"Connected", "Client disconnected"} =>
             \E c \in 1 .. nconn : cout[i][2] \in PeersOf(c)

\* the handler of the first connection wrote its "Connected" line after the
\* second connection's handler did, so after main's client_addr had been
\* overwritten by the second accept, and its peer then closed
C16_Witness ==
    /\ \E i \in LinesOf("Connected", 2) : \E j \in LinesOf("Connected", 1) : i < j
    /\ l_client_addr \notin { SockAddr(p.ip, p.port) : p \in PeersOf(1) }
    /\ LinesOf("Client disconnected", 1) # {}

\* C17 - Echo-loop invariant: inside the write loop 0 <= sent <= n <= BUF_SZ;
\* on every connection the bytes echoed so far are a prefix of the bytes
\* received so far; and the bytes received but not yet echoed are at most
\* BUF_SZ, inside the write loop exactly the n - sent bytes of the buffer that
\* are still to be sent.
C17_EchoLoopInvariant ==
    \A c \in Conns :
       /\ hpc[c] = "send" =>
             /\ 0 <= sent[c] /\ sent[c] <= n[c] /\ n[c] <= BUF_SZ
             /\ Len(rcvd[c]) - Len(echoed[c]) = n[c] - sent[c]
       /\ IsPrefix(echoed[c], rcvd[c])
       /\ Len(rcvd[c]) - Len(echoed[c]) <= BUF_SZ

\* a recv has filled the whole buffer, with more of the stream still waiting
C17_Witness ==
    \E c \in Conns :
       /\ hpc[c] = "send" /\ n[c] = BUF_SZ /\ sent[c] = 0
       /\ wire_in[c] # <<>>
       /\ Len(rcvd[c]) - Len(echoed[c]) = BUF_SZ

\* C18 - Write-loop termination: the write loop ends a chunk of n bytes within
\* n send calls whatever the sends return, so a handler still inside the loop
\* has made fewer than n of them; a send that returns 0 does not keep the
\* loop going.
C18_WriteLoopTermination ==
    \A c \in Conns : hpc[c] = "send" => send_calls[c] < n[c]

\* C20 - Port consistency: the number in the "Listening on port N" line is the
\* port the listening socket is bound to, and with a port outside 1 .. 65535
\* the socket is never bound: bind rejects the value.
C20_PortConsistency ==
    /\ \A i \in ListeningLines : cout[i][2] = to_string(bound_port)
    /\ port \notin 1 .. 65535 => bound_port = 0

\* C15 - Log line integrity: the pieces one log call inserts into the output
\* are contiguous there, no piece of another thread's log call between them.
C15_LogLineIntegrity ==
    \A i, j \in 1 .. Len(stream) :
       i < j /\ stream[i].by = stream[j].by =>
          \A k \in i .. j : stream[k].by = stream[i].by

\* C19 - Eventual release: a connection whose peer has closed does not stay
\* open for ever; as long as its handler has not closed it, the handler has a
\* step to take, so that weak fairness of the handler's steps carries it to
\* its close.
C19_EventualRelease ==
    \A c \in Conns :
       peer_shut[c] /\ fd[c] = "open" /\ hpc[c] # "unborn" => ENABLED HandlerStep(c)

====
